---- MODULE Spec2Model ----
(***************************************************************************)
(* A model of bodaIncome.py: the ledger document, the validators, the      *)
(* M-Pesa batch reconciliation and the aggregation engine.                 *)
(*                                                                         *)
(* Text is modelled as a sequence of one-character strings, so that        *)
(* lower(), strip(), title(), int() and startswith() are computed and not  *)
(* assumed.  Amounts are Python floats, added and subtracted with the      *)
(* rounding of the hardware.  A calendar date is <<y, m, d>>.              *)
(***************************************************************************)
EXTENDS Integers, Sequences, FiniteSets, TLC

VARIABLES
    data,       \* the ledger document stored in DATA_FILE
    contacts,   \* the contact list stored in CONTACTS_FILE
    pc,         \* "menu", or "batch" inside process_mpesa_messages
    mem,        \* the document process_mpesa_messages loaded when it started
    messages,   \* the pasted lines of the running batch not yet handled
    last,       \* what the last operation did (its outcome and inputs)
    report      \* what the last operation produced beside the stored document

vars == <<data, contacts, pc, mem, messages, last, report>>

----------------------------------------------------------------------------
(* Text *)

Upper == <<"A","B","C","D","E","F","G","H","I","J","K","L","M",
           "N","O","P","Q","R","S","T","U","V","W","X","Y","Z">>
Lower == <<"a","b","c","d","e","f","g","h","i","j","k","l","m",
           "n","o","p","q","r","s","t","u","v","w","x","y","z">>
Digits == <<"0","1","2","3","4","5","6","7","8","9">>

IsUpper(c) == \E i \in 1..26 : Upper[i] = c
IsLower(c) == \E i \in 1..26 : Lower[i] = c
IsAlpha(c) == IsUpper(c) \/ IsLower(c)
IsDigit(c) == \E i \in 1..10 : Digits[i] = c
IsSpace(c) == c = " "

ToLowerChar(c) == IF IsUpper(c) THEN Lower[CHOOSE i \in 1..26 : Upper[i] = c] ELSE c
ToUpperChar(c) == IF IsLower(c) THEN Upper[CHOOSE i \in 1..26 : Lower[i] = c] ELSE c
DigitVal(c) == (CHOOSE i \in 1..10 : Digits[i] = c) - 1

\* str.lower()
lower(s) == [i \in 1..Len(s) |-> ToLowerChar(s[i])]

\* str.title(): a letter that follows a non-letter is upper-cased, any other
\* letter is lower-cased
title(s) ==
    [i \in 1..Len(s) |->
        IF i = 1 \/ ~IsAlpha(s[i - 1]) THEN ToUpperChar(s[i]) ELSE ToLowerChar(s[i])]

\* str.strip()
strip(s) ==
    LET keep == {i \in 1..Len(s) : ~IsSpace(s[i])}
    IN  IF keep = {} THEN <<>>
        ELSE SubSeq(s, CHOOSE i \in keep : \A j \in keep : i <= j,
                       CHOOSE i \in keep : \A j \in keep : j <= i)

\* str.startswith(prefix)
startswith(s, prefix) ==
    Len(prefix) <= Len(s) /\ SubSeq(s, 1, Len(prefix)) = prefix

\* sub in s
contains(s, sub) ==
    \E i \in 0..(Len(s) - Len(sub)) : SubSeq(s, i + 1, i + Len(sub)) = sub

\* Whether int() accepts a stripped text: an optional sign and decimal digits
signed_digits(t) ==
    LET u == IF t # <<>> /\ t[1] \in {"+", "-"} THEN Tail(t) ELSE t
    IN  u # <<>> /\ \A i \in 1..Len(u) : IsDigit(u[i])

\* Whether int(s) succeeds (int() ignores the blanks around the number)
IsIntText(s) == signed_digits(strip(s))

RECURSIVE NatOf(_)
NatOf(u) == IF u = <<>> THEN 0
            ELSE 10 * NatOf(SubSeq(u, 1, Len(u) - 1)) + DigitVal(u[Len(u)])

signed_value(t) ==
    IF t[1] = "-" THEN 0 - NatOf(Tail(t))
    ELSE IF t[1] = "+" THEN NatOf(Tail(t))
    ELSE NatOf(t)

\* int(s), for a text on which int() succeeds
IntOf(s) == signed_value(strip(s))

----------------------------------------------------------------------------
(* Calendar dates: datetime.date as <<year, month, day>> *)

IsLeap(y) == y % 4 = 0 /\ (y % 100 # 0 \/ y % 400 = 0)

DaysInMonth(y, m) ==
    IF m = 2 THEN (IF IsLeap(y) THEN 29 ELSE 28)
    ELSE IF m \in {4, 6, 9, 11} THEN 30 ELSE 31

IsValidDate(y, m, d) ==
    y >= 1 /\ m \in 1..12 /\ d >= 1 /\ d <= DaysInMonth(y, m)

DaysBeforeYear(y) ==
    (y - 1) * 365 + ((y - 1) \div 4) - ((y - 1) \div 100) + ((y - 1) \div 400)

RECURSIVE DaysBeforeMonth(_, _)
DaysBeforeMonth(y, m) ==
    IF m = 1 THEN 0 ELSE DaysBeforeMonth(y, m - 1) + DaysInMonth(y, m - 1)

\* date.toordinal()
ToOrdinal(dte) == DaysBeforeYear(dte[1]) + DaysBeforeMonth(dte[1], dte[2]) + dte[3]

\* The Monday on or before first_day, or the one after it when first_day
\* comes after a Thursday
week1_monday(first_day) ==
    LET first_weekday == (first_day + 6) % 7
    IN  IF first_weekday > 3 THEN first_day - first_weekday + 7
        ELSE first_day - first_weekday

\* The ordinal of the Monday that starts ISO week 1 of year y
IsoWeek1Monday(y) == week1_monday(ToOrdinal(<<y, 1, 1>>))

\* The ISO year and week of the day with ordinal today of calendar year y,
\* week being the number of whole weeks since ISO week 1 of y began
iso_year_week(y, today, week) ==
    IF week < 0
    THEN <<y - 1, ((today - IsoWeek1Monday(y - 1)) \div 7) + 1, ((today + 6) % 7) + 1>>
    ELSE IF week >= 52 /\ today >= IsoWeek1Monday(y + 1)
    THEN <<y + 1, 1, ((today + 6) % 7) + 1>>
    ELSE <<y, week + 1, ((today + 6) % 7) + 1>>

iso_of_ordinal(y, today) ==
    iso_year_week(y, today, (today - IsoWeek1Monday(y)) \div 7)

\* date.isocalendar(): <<ISO year, ISO week, ISO weekday>>
isocalendar(dte) == iso_of_ordinal(dte[1], ToOrdinal(dte))

----------------------------------------------------------------------------
(* Amounts: Python floats.  A float of magnitude below 2^25 that is a      *)
(* whole multiple of 2^-56 is written as its sign and its magnitude in     *)
(* three limbs, w + h / 2^28 + l / 2^56; the amounts of the model and      *)
(* their sums and differences are all of this kind.  Addition and          *)
(* subtraction are exact in the limbs and are then rounded to 53           *)
(* significant bits, ties to even, as the hardware does.                   *)

RECURSIVE Pow2(_)
Pow2(k) == IF k = 0 THEN 1 ELSE 2 * Pow2(k - 1)

\* Bits of a limb of the fraction, and bits a float keeps
LimbBits == 28
Mantissa == 53

Limb == Pow2(LimbBits)

\* float(n) of an integer n
Float(n) == [neg |-> n < 0, w |-> IF n < 0 THEN 0 - n ELSE n, h |-> 0, l |-> 0]

IsZero(x) == x.w = 0 /\ x.h = 0 /\ x.l = 0

\* float("nan"): not a number, marked by a whole part below zero
NaN == [neg |-> FALSE, w |-> 0 - 1, h |-> 0, l |-> 0]

IsNaN(x) == x.w < 0

\* Carries (or borrows) taken from limb to limb
Carried(neg, w, h, l) ==
    [neg |-> neg /\ ~(w = 0 /\ h = 0 /\ l = 0),
     w   |-> w + (h + l \div Limb) \div Limb,
     h   |-> (h + l \div Limb) % Limb,
     l   |-> l % Limb]

RECURSIVE BitLen(_)
BitLen(n) == IF n = 0 THEN 0 ELSE 1 + BitLen(n \div 2)

\* How many low bits of a magnitude do not fit in the mantissa
Excess(x) ==
    IF x.w > 0 THEN BitLen(x.w) + 2 * LimbBits - Mantissa
    ELSE IF BitLen(x.h) + LimbBits > Mantissa
    THEN BitLen(x.h) + LimbBits - Mantissa
    ELSE 0

\* Round to nearest, ties to even: q is the weight of the last bit kept
RoundedTo(x, q) ==
    Carried(x.neg, x.w, x.h,
            IF \/ 2 * (x.l % q) > q
               \/ (2 * (x.l % q) = q /\ (x.l \div q) % 2 = 1)
            THEN x.l - (x.l % q) + q
            ELSE x.l - (x.l % q))

Rounded(x) == RoundedTo(x, Pow2(Excess(x)))

\* abs(x) >= abs(y)
MagGe(x, y) ==
    \/ x.w > y.w
    \/ x.w = y.w /\ x.h > y.h
    \/ x.w = y.w /\ x.h = y.h /\ x.l >= y.l

\* x + y
fadd(x, y) ==
    IF IsNaN(x) \/ IsNaN(y) THEN NaN
    ELSE IF x.neg = y.neg
    THEN Rounded(Carried(x.neg, x.w + y.w, x.h + y.h, x.l + y.l))
    ELSE IF MagGe(x, y)
    THEN Rounded(Carried(x.neg, x.w - y.w, x.h - y.h, x.l - y.l))
    ELSE Rounded(Carried(y.neg, y.w - x.w, y.h - x.h, y.l - x.l))

\* -x
fneg(x) == IF IsZero(x) \/ IsNaN(x) THEN x ELSE [x EXCEPT !.neg = ~@]

\* x - y
fsub(x, y) == fadd(x, fneg(y))

\* abs(x)
fabs(x) == [x EXCEPT !.neg = FALSE]

\* x > 0
fpos(x) == ~IsNaN(x) /\ ~x.neg /\ ~IsZero(x)

\* x <= 0
fnonpos(x) == ~IsNaN(x) /\ (x.neg \/ IsZero(x))

\* x > y
fgt(x, y) == fpos(fsub(x, y))

\* max(0, x)
fmax0(x) == IF fpos(x) THEN x ELSE Float(0)

\* 0.1 = 0x1.999999999999ap-4 and 0.2 = 0x1.999999999999ap-3, in the limbs
F_0_1 == [neg |-> FALSE, w |-> 0, h |-> 26843545, l |-> 161061274]
F_0_2 == [neg |-> FALSE, w |-> 0, h |-> 53687091, l |-> 53687092]

----------------------------------------------------------------------------
(* Constants of the program *)

S_Cash    == <<"C","a","s","h">>
S_MPesa   == <<"M","-","P","e","s","a">>
S_BikeHire == <<"B","i","k","e"," ","H","i","r","e">>
S_Airtime == <<"A","i","r","t","i","m","e">>
S_Fuel    == <<"F","u","e","l">>
S_Food    == <<"F","o","o","d">>
S_Rent    == <<"R","e","n","t">>
S_Debts   == <<"D","e","b","t","s">>
S_Clothes == <<"C","l","o","t","h","e","s">>
S_EmergencySavings ==
    <<"E","m","e","r","g","e","n","c","y"," ","S","a","v","i","n","g","s">>
S_Income  == <<"I","n","c","o","m","e">>
S_Offline == <<"O","f","f","l","i","n","e">>
S_total   == <<"t","o","t","a","l">>

\* PLATFORMS: the accepted platform answers and the platform each names
PLATFORMS ==
    (<<"1">> :> "Uber") @@ (<<"u">> :> "Uber") @@
    (<<"2">> :> "Bolt") @@ (<<"b">> :> "Bolt") @@
    (<<"3">> :> "Littlecab") @@ (<<"l">> :> "Littlecab") @@
    (<<"4">> :> "Offline") @@ (<<"o">> :> "Offline")

PlatformNames == <<"Uber", "Bolt", "Littlecab", "Offline">>

PAYMENT_MODES == <<S_Cash, S_MPesa>>

\* The +-10 KES of verify_mpesa_balance
Tolerance == 10

\* dt.today().date(): the day the program runs on
Today == <<2025, 1, 2>>

\* The document load_data returns when DATA_FILE does not exist
DefaultData ==
    [income             |-> <<>>,
     expenses           |-> <<>>,
     savings            |-> <<>>,
     expense_categories |-> <<S_BikeHire, S_Airtime, S_Fuel, S_Food,
                              S_Rent, S_Debts, S_Clothes>>,
     savings_categories |-> <<S_EmergencySavings>>,
     savings_switch     |-> FALSE,
     mpesa_details      |-> [name |-> <<>>, phone |-> <<>>]]

\* DATA_FILE does not exist
NoFile == [absent |-> TRUE]

\* load_data: the stored document, the four optional keys defaulted
load_data(file) ==
    IF "absent" \in DOMAIN file THEN DefaultData
    ELSE LET filled == {"expense_categories", "savings_categories",
                        "savings_switch", "mpesa_details"}
         IN  [k \in DOMAIN file \cup filled |->
                 IF k \in DOMAIN file THEN file[k] ELSE DefaultData[k]]

\* save_data: the whole document replaces the file
save_data(d) == d

----------------------------------------------------------------------------
(* Validators: each returns Ok(value) or raises ValueError, Err(kind) *)

Ok(v)  == [ok |-> TRUE, val |-> v]
Err(e) == [ok |-> FALSE, err |-> e]

\* A date answer: YYYY-MM-DD, MM-DD, DD, or text that is none of these
DateYMD(y, m, d) == [fmt |-> "ymd", y |-> y, m |-> m, d |-> d]
DateMD(m, d)     == [fmt |-> "md", y |-> 0, m |-> m, d |-> d]
DateD(d)         == [fmt |-> "d", y |-> 0, m |-> 0, d |-> d]
DateBad          == [fmt |-> "bad", y |-> 0, m |-> 0, d |-> 0]

\* date.isoformat() of a datetime.date
isoformat(dte) == DateYMD(dte[1], dte[2], dte[3])

parse_date(date_str) ==
    LET y == IF date_str.fmt = "ymd" THEN date_str.y ELSE Today[1]
        m == IF date_str.fmt \in {"ymd", "md"} THEN date_str.m ELSE Today[2]
        d == date_str.d
    IN  IF date_str.fmt = "bad" \/ ~IsValidDate(y, m, d) THEN Err("InvalidDate")
        ELSE IF ToOrdinal(<<y, m, d>>) > ToOrdinal(Today) THEN Err("FutureDate")
        ELSE Ok(<<y, m, d>>)

platform_of(p) ==
    IF p \in DOMAIN PLATFORMS THEN Ok(PLATFORMS[p]) ELSE Err("InvalidPlatform")

validate_platform(platform) == platform_of(strip(lower(platform)))

\* The index branch and the except branch of validate_category, on the
\* lower-cased and stripped answer c
category_of(c, categories) ==
    IF IsIntText(c)
    THEN IF 0 <= IntOf(c) - 1 /\ IntOf(c) - 1 < Len(categories)
         THEN Ok(categories[(IntOf(c) - 1) + 1])
         ELSE Err("InvalidCategory")
    ELSE LET hits == {i \in 1..Len(categories) :
                         \/ startswith(lower(categories[i]), c)
                         \/ c = lower(categories[i])}
         IN  IF hits # {}
             THEN Ok(categories[CHOOSE i \in hits : \A j \in hits : i <= j])
             ELSE Err("InvalidCategory")

\* A mutation of validate_category: the index is not made 0-based
validate_category_off_by_one(category, categories, category_type) ==
    IF IsIntText(strip(lower(category)))
    THEN IF 0 <= IntOf(strip(lower(category)))
            /\ IntOf(strip(lower(category))) < Len(categories)
         THEN Ok(categories[IntOf(strip(lower(category))) + 1])
         ELSE Err("InvalidCategory")
    ELSE category_of(strip(lower(category)), categories)

validate_category(category, categories, category_type) ==
    category_of(strip(lower(category)), categories)

\* An amount argument: the text of an answer, or a float already
AmountText(t) == [isnum |-> FALSE, text |-> t, num |-> Float(0)]
AmountNum(n)  == [isnum |-> TRUE, text |-> <<>>, num |-> n]

\* if amount <= 0: raise ValueError
positive(a) == IF fnonpos(a) THEN Err("InvalidAmount") ELSE Ok(a)

\* float(text), for the texts of whole numbers and of nan; any other text
\* of the model's answers raises ValueError
float_of(text) ==
    IF lower(strip(text)) \in {<<"n","a","n">>, <<"+","n","a","n">>, <<"-","n","a","n">>}
    THEN Ok(NaN)
    ELSE IF IsIntText(text) THEN Ok(Float(IntOf(text)))
    ELSE Err("InvalidAmount")

validate_amount(amount) ==
    IF amount.isnum THEN positive(amount.num)
    ELSE IF ~float_of(amount.text).ok THEN Err("InvalidAmount")
    ELSE positive(float_of(amount.text).val)

mode_of(m) ==
    IF \E i \in 1..Len(PAYMENT_MODES) : PAYMENT_MODES[i] = m
    THEN Ok(m) ELSE Err("InvalidPaymentMode")

validate_payment_mode(mode) == mode_of(strip(title(mode)))

\* normalize_phone, on the stripped number
phone_of(p) ==
    IF startswith(p, <<"0">>) THEN <<"+","2","5","4">> \o Tail(p) ELSE p

normalize_phone(phone) == phone_of(strip(phone))

----------------------------------------------------------------------------
(* Balance reconciliation *)

\* One of the two loops of calculate_mpesa_balance over the entries from the
\* first on: balance += amount (sign 1) or balance -= amount (sign -1) for
\* each "M-Pesa" entry
RECURSIVE mpesa_loop(_, _, _)
mpesa_loop(entries, sign, balance) ==
    IF entries = <<>> THEN balance
    ELSE mpesa_loop(Tail(entries), sign,
                    IF Head(entries).payment_mode # S_MPesa THEN balance
                    ELSE IF sign = 1 THEN fadd(balance, Head(entries).amount)
                    ELSE fsub(balance, Head(entries).amount))

RECURSIVE any_mode_loop(_, _, _)
any_mode_loop(entries, sign, balance) ==
    IF entries = <<>> THEN balance
    ELSE any_mode_loop(Tail(entries), sign,
                       IF sign = 1 THEN fadd(balance, Head(entries).amount)
                       ELSE fsub(balance, Head(entries).amount))

\* A mutation of calculate_mpesa_balance: the payment mode is not looked at
calculate_mpesa_balance_any_mode(d) ==
    any_mode_loop(d["expenses"] \o d["savings"], -1,
                  any_mode_loop(d["income"], 1, Float(0)))

calculate_mpesa_balance(d) ==
    mpesa_loop(d["expenses"] \o d["savings"], -1, mpesa_loop(d["income"], 1, Float(0)))

\* if abs(expected_balance - transaction["balance"]) > 10: return False
within_tolerance(expected_balance, transaction) ==
    ~fgt(fabs(fsub(expected_balance, transaction.balance)), Float(Tolerance))

\* A mutation of verify_mpesa_balance: a difference of exactly 10 fails
verify_mpesa_balance_strict(transaction, d) ==
    fgt(Float(Tolerance),
        fabs(fsub(IF transaction.type = "income"
                  THEN fadd(calculate_mpesa_balance(d), transaction.amount)
                  ELSE fsub(calculate_mpesa_balance(d), transaction.amount),
                  transaction.balance)))

verify_mpesa_balance(transaction, d) ==
    within_tolerance(IF transaction.type = "income"
                     THEN fadd(calculate_mpesa_balance(d), transaction.amount)
                     ELSE fsub(calculate_mpesa_balance(d), transaction.amount),
                     transaction)

----------------------------------------------------------------------------
(* Recording entries: each returns the entry and the saved document, or   *)
(* raises the ValueError of the first validation that fails               *)

Saved(file, entry) == [ok |-> TRUE, file |-> file, entry |-> entry]

\* add_income once its four validations have run
income_recorded(file, date, plat, amt, mode, notes, transaction_code) ==
    IF ~date.ok THEN date
    ELSE IF ~plat.ok THEN plat
    ELSE IF ~amt.ok THEN amt
    ELSE IF ~mode.ok THEN mode
    ELSE LET entry == [date             |-> isoformat(date.val),
                       platform         |-> plat.val,
                       amount           |-> amt.val,
                       notes            |-> strip(notes),
                       payment_mode     |-> mode.val,
                       transaction_code |-> IF mode.val = S_MPesa
                                            THEN transaction_code ELSE ""]
         IN  Saved(save_data([load_data(file) EXCEPT !["income"] = Append(@, entry)]),
                   entry)

add_income(file, date_str, platform, amount, notes, payment_mode, transaction_code) ==
    income_recorded(file, parse_date(date_str), validate_platform(platform),
                    validate_amount(amount), validate_payment_mode(payment_mode),
                    notes, transaction_code)

\* add_expense and add_savings once their validations have run: d is the
\* loaded document, key the collection the entry goes to
categorised_recorded(d, key, date, cat, amt, mode, notes, transaction_code) ==
    IF ~date.ok THEN date
    ELSE IF ~cat.ok THEN cat
    ELSE IF ~amt.ok THEN amt
    ELSE IF ~mode.ok THEN mode
    ELSE LET entry == [date             |-> isoformat(date.val),
                       category         |-> cat.val,
                       amount           |-> amt.val,
                       notes            |-> strip(notes),
                       payment_mode     |-> mode.val,
                       transaction_code |-> IF mode.val = S_MPesa
                                            THEN transaction_code ELSE ""]
         IN  Saved(save_data([d EXCEPT ![key] = Append(@, entry)]), entry)

\* add_expense ("expenses") and add_savings ("savings") differ in the
\* collection and the category list only
add_categorised(file, key, cats_key, date_str, category, amount, notes, payment_mode, transaction_code) ==
    categorised_recorded(load_data(file), key, parse_date(date_str),
                         validate_category(category, load_data(file)[cats_key], key),
                         validate_amount(amount), validate_payment_mode(payment_mode),
                         notes, transaction_code)

add_expense(file, date_str, category, amount, notes, payment_mode, transaction_code) ==
    add_categorised(file, "expenses", "expense_categories", date_str, category,
                    amount, notes, payment_mode, transaction_code)

add_savings(file, date_str, category, amount, notes, payment_mode, transaction_code) ==
    add_categorised(file, "savings", "savings_categories", date_str, category,
                    amount, notes, payment_mode, transaction_code)

\* add_contact: one more contact at the end of the contact list
add_contact(cs, name, phone, date, category) ==
    Append(cs, [name |-> name, phone |-> phone, date |-> date, category |-> category])

\* The "latest contact" update that follows a recorded transaction
update_contact(cs, trans, category) ==
    IF cs # <<>> /\ cs[Len(cs)].phone = trans.phone /\ cs[Len(cs)].date = trans.date
    THEN [cs EXCEPT ![Len(cs)].category = category]
    ELSE cs

----------------------------------------------------------------------------
(* Message parsing.  A pasted line is the template it matches (or "none")  *)
(* and the text of each group of that template; the time of day, which     *)
(* only the contact record keeps, is left out.                             *)

Message(template, code, amount, name, ref, dmy, balance) ==
    [template |-> template, code |-> code, amount |-> amount, name |-> name,
     ref |-> ref, dmy |-> dmy, balance |-> balance]

\* strptime(date_str, '%d/%m/%y'): a two-digit year below 69 is 20yy
strptime_dmy(dmy) ==
    LET y == IF dmy[3] < 69 THEN 2000 + dmy[3] ELSE 1900 + dmy[3]
    IN  <<y, dmy[2], dmy[1]>>

Templates == {"received", "sent", "paid", "paybill"}

\* The transaction a matching line gives: phone_or_account is group 4 (none
\* in the "paid" template), date the parsed group 5
parsed(message, phone_or_account, date) ==
    IF ~IsValidDate(date[1], date[2], date[3]) THEN [kind |-> "error"]
    ELSE [kind             |-> "trans",
          type             |-> IF message.template = "received"
                               THEN "income" ELSE "expense",
          transaction_code |-> message.code,
          amount           |-> Float(message.amount),
          name             |-> strip(message.name),
          phone            |-> IF \/ startswith(phone_or_account, <<"0">>)
                                  \/ startswith(phone_or_account, <<"+","2","5","4">>)
                               THEN normalize_phone(phone_or_account)
                               ELSE <<>>,
          date             |-> isoformat(date),
          balance          |-> Float(message.balance)]

\* kind "none": no template matches; "trans": the parsed transaction;
\* "error": strptime raised ValueError on the date of the message
parse_mpesa_message(message) ==
    IF message.template \notin Templates THEN [kind |-> "none"]
    ELSE parsed(message,
                IF message.template # "paid" THEN message.ref ELSE <<>>,
                strptime_dmy(message.dmy))

\* The keyword rules of smart_categorize on the lower-cased name
category_for(n) ==
    IF \/ contains(n, <<"p","e","t","r","o","l">>)
       \/ contains(n, <<"f","u","e","l">>)
       \/ contains(n, <<"s","t","a","t","i","o","n">>)
    THEN S_Fuel
    ELSE IF contains(n, <<"m","a","r","a","p","a","y">>) THEN S_Airtime
    ELSE <<>>

\* smart_categorize: the category a counterparty name suggests, <<>> for None
smart_categorize(name) == category_for(lower(name))

\* x in list
InList(x, list) == \E i \in 1..Len(list) : list[i] = x

----------------------------------------------------------------------------
(* process_mpesa_messages: one turn of its loop over the pasted lines *)

NoTrans  == [kind |-> "none"]
NoEntry  == [none |-> TRUE]
NoReport == [none |-> TRUE]

S_From == <<"F","r","o","m"," ">>
S_To   == <<"T","o"," ">>

\* What one turn of the loop did.  result is "invalid" (no template),
\* "mismatch", "income", "expense", "savings", "skipped", or "raised" when an
\* exception left the loop
Turn(result, file, cs, trans, entry, err, log) ==
    [result |-> result, file |-> file, contacts |-> cs, trans |-> trans,
     entry |-> entry, err |-> err, log |-> log]

\* A line of LOG_FILE, as log_action writes it: the fixed text and what
\* follows it
LogLine(text, detail) == <<text, detail>>

\* The turn that ends with a call of add_income, add_expense or add_savings:
\* r is what the call returned or raised, cs1 the contacts before the call
\* and tagged the contacts with the latest one given its category
recorded(result, r, file, cs1, tagged, trans) ==
    IF r.ok THEN Turn(result, r.file, tagged, trans, r.entry, "",
                      LogLine("Added", trans.transaction_code))
    ELSE Turn("raised", file, cs1, trans, NoEntry, r.err, LogLine("Error", r.err))

tag(cs1, trans, category) ==
    IF trans.phone # <<>> THEN update_contact(cs1, trans, category) ELSE cs1

record_income(file, cs1, trans) ==
    recorded("income",
             add_income(file, trans.date, S_Offline, AmountNum(trans.amount),
                        S_From \o trans.name, S_MPesa, trans.transaction_code),
             file, cs1, tag(cs1, trans, S_Income), trans)

record_expense(file, cs1, trans, category) ==
    recorded("expense",
             add_expense(file, trans.date, category, AmountNum(trans.amount),
                         S_To \o trans.name, S_MPesa, trans.transaction_code),
             file, cs1, tag(cs1, trans, category), trans)

record_savings(file, cs1, trans, category) ==
    recorded("savings",
             add_savings(file, trans.date, category, AmountNum(trans.amount),
                         S_To \o trans.name, S_MPesa, trans.transaction_code),
             file, cs1, tag(cs1, trans, category), trans)

\* The operator classified the transaction: c is what validate_category
\* returned or raised on the category answer
classified(choice, c, file, cs1, trans) ==
    IF ~c.ok THEN Turn("raised", file, cs1, trans, NoEntry, c.err, LogLine("Error", c.err))
    ELSE IF choice = "1" THEN record_expense(file, cs1, trans, c.val)
    ELSE record_savings(file, cs1, trans, c.val)

\* A mutation of routed: without a suggested category the transaction is
\* recorded as an expense of the first category
routed_by_default(d, file, cs1, trans, category, choice, cat_input) ==
    record_expense(file, cs1, trans,
                   IF category # <<>> /\ InList(category, d["expense_categories"])
                   THEN category ELSE d["expense_categories"][1])

\* The "Expense or Savings" branch: category is what smart_categorize gave
routed(d, file, cs1, trans, category, choice, cat_input) ==
    IF category # <<>> /\ InList(category, d["expense_categories"])
    THEN record_expense(file, cs1, trans, category)
    ELSE IF choice = "1"
    THEN classified(choice, validate_category(cat_input, d["expense_categories"],
                                              "expense"), file, cs1, trans)
    ELSE IF choice = "2"
    THEN classified(choice, validate_category(cat_input, d["savings_categories"],
                                              "savings"), file, cs1, trans)
    ELSE Turn("skipped", file, cs1, trans, NoEntry, "",
              LogLine("Skipped transaction", trans.transaction_code))

\* The loop body after the contact was added (cs1)
dispatched(d, file, cs1, trans, choice, cat_input) ==
    IF trans.type = "income" THEN record_income(file, cs1, trans)
    ELSE routed(d, file, cs1, trans, smart_categorize(trans.name), choice, cat_input)

\* The loop body after a passed verification
apply_transaction(d, file, cs, trans, choice, cat_input) ==
    dispatched(d, file,
               IF trans.phone # <<>>
               THEN add_contact(cs, trans.name, trans.phone, trans.date, <<>>)
               ELSE cs,
               trans, choice, cat_input)

\* A mutation of process_parsed: the "continue" after a balance mismatch is
\* missing
process_parsed_no_continue(d, file, cs, trans, choice, cat_input) ==
    IF trans.kind = "error"
    THEN Turn("raised", file, cs, NoTrans, NoEntry, "InvalidDate",
              LogLine("Error", "InvalidDate"))
    ELSE IF trans.kind = "none"
    THEN Turn("invalid", file, cs, NoTrans, NoEntry, "",
              LogLine("Skipped invalid M-Pesa message", ""))
    ELSE apply_transaction(d, file, cs, trans, choice, cat_input)

\* The loop body once the line is parsed (trans)
process_parsed(d, file, cs, trans, choice, cat_input) ==
    IF trans.kind = "error"
    THEN Turn("raised", file, cs, NoTrans, NoEntry, "InvalidDate",
              LogLine("Error", "InvalidDate"))
    ELSE IF trans.kind = "none"
    THEN Turn("invalid", file, cs, NoTrans, NoEntry, "",
              LogLine("Skipped invalid M-Pesa message", ""))
    ELSE IF ~verify_mpesa_balance(trans, d)
    THEN Turn("mismatch", file, cs, trans, NoEntry, "",
              LogLine("Balance mismatch for", trans.transaction_code))
    ELSE apply_transaction(d, file, cs, trans, choice, cat_input)

\* The loop body for one pasted line: d is the document the function loaded
\* when it started, file the stored document, cs the stored contacts
process_message(d, file, cs, message, choice, cat_input) ==
    process_parsed(d, file, cs, parse_mpesa_message(message), choice, cat_input)

----------------------------------------------------------------------------
(* The state of the program *)

Last(op, result, err, trans, entry) ==
    [op |-> op, result |-> result, err |-> err, trans |-> trans, entry |-> entry]

\* The number of entries of a stored document
TotalEntries(file) ==
    LET d == load_data(file)
    IN  Len(d["income"]) + Len(d["expenses"]) + Len(d["savings"])

\* A fresh installation: no data file, no contacts, the menu showing
Init ==
    /\ data = NoFile
    /\ contacts = <<>>
    /\ pc = "menu"
    /\ mem = NoFile
    /\ messages = <<>>
    /\ last = Last("start", "", "", NoTrans, NoEntry)
    /\ report = NoReport

\* Bounds of the model: entries in the ledger, lines in one paste, contacts
MaxEntries  == 3
MaxBatch    == 2
MaxContacts == 3

DateEmpty == [fmt |-> "empty", y |-> 0, m |-> 0, d |-> 0]

\* "Enter for today" of menu options 1 to 3
MenuDate(answer) == IF answer.fmt = "empty" THEN isoformat(Today) ELSE answer

\* The transaction code is asked for only when the mode answer is m-pesa
MenuCode(mode, code) == IF lower(mode) = lower(S_MPesa) THEN code ELSE ""

Done(op, r) ==
    /\ data' = IF r.ok THEN r.file ELSE data
    /\ last' = IF r.ok THEN Last(op, "ok", "", NoTrans, r.entry)
               ELSE Last(op, "error", r.err, NoTrans, NoEntry)
    /\ report' = NoReport
    /\ UNCHANGED <<contacts, pc, mem, messages>>

\* Menu option 1
AddIncome(answer, platform, amount, mode, code) ==
    /\ pc = "menu"
    /\ TotalEntries(data) < MaxEntries
    /\ Done("add_income",
            add_income(data, MenuDate(answer), platform, AmountText(amount), <<>>,
                       mode, MenuCode(mode, code)))

\* Menu option 2
AddExpense(answer, category, amount, mode, code) ==
    /\ pc = "menu"
    /\ TotalEntries(data) < MaxEntries
    /\ Done("add_expense",
            add_expense(data, MenuDate(answer), category, AmountText(amount), <<>>,
                        mode, MenuCode(mode, code)))

\* Menu option 3
AddSavings(answer, category, amount, mode, code) ==
    /\ pc = "menu"
    /\ TotalEntries(data) < MaxEntries
    /\ Done("add_savings",
            add_savings(data, MenuDate(answer), category, AmountText(amount), <<>>,
                        mode, MenuCode(mode, code)))

\* Menu option 7: set_mpesa_details
SetMpesaDetails(name, phone) ==
    /\ pc = "menu"
    /\ data' = save_data([load_data(data) EXCEPT
                   !["mpesa_details"] = [name  |-> title(strip(name)),
                                         phone |-> normalize_phone(strip(phone))]])
    /\ last' = Last("set_mpesa_details", "ok", "", NoTrans, NoEntry)
    /\ report' = NoReport
    /\ UNCHANGED <<contacts, pc, mem, messages>>

\* Menu option 8: toggle_savings_switch
ToggleSavingsSwitch ==
    /\ pc = "menu"
    /\ data' = save_data([load_data(data) EXCEPT
                   !["savings_switch"] = ~load_data(data)["savings_switch"]])
    /\ last' = Last("toggle_savings_switch", "ok", "", NoTrans, NoEntry)
    /\ report' = NoReport
    /\ UNCHANGED <<contacts, pc, mem, messages>>

\* Menu option 4, up to the loop: the document is loaded once and the pasted
\* lines are read
StartBatch(lines) ==
    /\ pc = "menu"
    /\ TotalEntries(data) + Len(lines) <= MaxEntries
    /\ Len(contacts) + Len(lines) <= MaxContacts
    /\ LET d == load_data(data)
       IN  IF d["mpesa_details"].name = <<>> \/ d["mpesa_details"].phone = <<>>
           THEN /\ last' = Last("process_mpesa_messages", "no_details", "",
                                NoTrans, NoEntry)
                /\ UNCHANGED <<pc, mem, messages>>
           ELSE /\ last' = Last("process_mpesa_messages", "started", "",
                                NoTrans, NoEntry)
                /\ pc' = IF lines = <<>> THEN "menu" ELSE "batch"
                /\ mem' = IF lines = <<>> THEN NoFile ELSE d
                /\ messages' = lines
    /\ report' = NoReport
    /\ UNCHANGED <<data, contacts>>

\* What a turn of the loop leaves behind.  An exception leaves the loop and
\* the function: main reports it and shows the menu again
BatchTurn(t) ==
    /\ data' = t.file
    /\ contacts' = t.contacts
    /\ last' = Last("message", t.result, t.err, t.trans, t.entry)
    /\ messages' = IF t.result = "raised" THEN <<>> ELSE Tail(messages)
    /\ pc' = IF t.result = "raised" \/ Tail(messages) = <<>> THEN "menu" ELSE "batch"
    /\ mem' = IF t.result = "raised" \/ Tail(messages) = <<>> THEN NoFile ELSE mem
    /\ report' = [logged |-> t.log]

\* One turn of the loop of process_mpesa_messages, with the operator's
\* answers should the transaction be uncategorized
BatchStep(choice, cat_input) ==
    /\ pc = "batch"
    /\ messages # <<>>
    /\ BatchTurn(process_message(mem, data, contacts, Head(messages), choice, cat_input))

----------------------------------------------------------------------------
(* calculate_totals *)

\* datetime.fromisoformat(text).date() of a stored date
fromisoformat(text) == <<text.y, text.m, text.d>>

\* No filter argument (None)
None == <<>>

Filter(date, week, month) == [date |-> date, week |-> week, month |-> month]

\* The three "continue" tests at the head of each loop body, negated
included(entry_date, flt) ==
    /\ ~(flt.date # None /\ entry_date # flt.date)
    /\ ~(flt.month # None /\ (entry_date[1] # flt.month[1] \/ entry_date[2] # flt.month[2]))
    /\ ~(flt.week # None /\ (\/ isocalendar(entry_date)[2] # flt.week[2]
                             \/ entry_date[1] # flt.week[1]))

\* f"{year}-W{week:02d}"
format_week(year, week) ==
    ToString(year) \o "-W" \o (IF week < 10 THEN "0" ELSE "") \o ToString(week)

\* A mutation of week_key: the calendar year stands in the key
week_key_calendar_year(entry_date) ==
    format_week(entry_date[1], isocalendar(entry_date)[2])

\* week_num = entry_date.isocalendar(), the key f"{week_num[0]}-W{week_num[1]:02d}"
iso_key(week_num) == format_week(week_num[1], week_num[2])

week_key(entry_date) == iso_key(isocalendar(entry_date))

\* {"total": 0, "Uber": 0, "Bolt": 0, "Littlecab": 0, "Offline": 0}
income_bucket == [k \in {"total", "Uber", "Bolt", "Littlecab", "Offline"} |-> Float(0)]

\* {cat: 0 for cat in categories} with ["total"] = 0 set after it
category_bucket(categories) ==
    [k \in {categories[i] : i \in 1..Len(categories)} \cup {S_total} |-> Float(0)]

\* bucket["total"] += amount; bucket[key] += amount
bump(bucket, total, key, amount) ==
    [[bucket EXCEPT ![total] = fadd(@, amount)] EXCEPT ![key] = fadd(@, amount)]

\* if week_key not in weekly: weekly[week_key] = blank; then the two +=
accumulate_week(buckets, bucket_key, blank, total, key, amount) ==
    LET b == IF bucket_key \in DOMAIN buckets THEN buckets
             ELSE buckets @@ (bucket_key :> blank)
    IN  [b EXCEPT ![bucket_key] = bump(@, total, key, amount)]

\* if date_str not in daily: daily[date_str] = blank; then the two +=
accumulate_day(buckets, bucket_key, blank, total, key, amount) ==
    LET b == IF bucket_key \in DOMAIN buckets THEN buckets
             ELSE buckets @@ (bucket_key :> blank)
    IN  [b EXCEPT ![bucket_key] = bump(@, total, key, amount)]

\* The empty dict
EmptyMap == <<>>

\* The body of one of the three loops, for an entry the filter lets past
accumulated(acc, entry, entry_date, blank, total, key, sign) ==
    [totals   |-> bump(acc.totals, total, key, entry.amount),
     daily    |-> accumulate_day(acc.daily, isoformat(entry_date),
                                 blank, total, key, entry.amount),
     weekly   |-> accumulate_week(acc.weekly, week_key(entry_date),
                                  blank, total, key, entry.amount),
     cash     |-> IF entry.payment_mode # S_Cash THEN acc.cash
                  ELSE IF sign = 1 THEN fadd(acc.cash, entry.amount)
                  ELSE fsub(acc.cash, entry.amount),
     mpesa    |-> IF entry.payment_mode = S_Cash THEN acc.mpesa
                  ELSE IF sign = 1 THEN fadd(acc.mpesa, entry.amount)
                  ELSE fsub(acc.mpesa, entry.amount),
     keyerror |-> FALSE]

\* One of the three loops of calculate_totals, over the entries from the
\* first on.  acc carries the totals, the per-day and per-week maps of this
\* collection and the two channel balances; keyerror is set when an entry's
\* platform or category has no slot in the totals (KeyError)
RECURSIVE aggregate(_, _, _, _, _, _, _)
aggregate(entries, field, blank, total, sign, flt, acc) ==
    IF entries = <<>> \/ acc.keyerror THEN acc
    ELSE IF ~included(fromisoformat(Head(entries).date), flt)
    THEN aggregate(Tail(entries), field, blank, total, sign, flt, acc)
    ELSE IF Head(entries)[field] \notin DOMAIN blank
    THEN [acc EXCEPT !.keyerror = TRUE]
    ELSE aggregate(Tail(entries), field, blank, total, sign, flt,
                   accumulated(acc, Head(entries), fromisoformat(Head(entries).date),
                               blank, total, Head(entries)[field], sign))

\* total_savings = savings_totals["total"] + max(0, balance)
switch_on(balance, savings) ==
    [balance |-> balance, total_savings |-> fadd(savings, fmax0(balance))]

\* A mutation of derive_balance: with the switch on, savings entries still
\* reduce the balance
derive_balance_always_subtracts(savings_switch, income, expense, savings) ==
    IF savings_switch
    THEN switch_on(fsub(fsub(income, expense), savings), savings)
    ELSE [balance |-> fsub(fsub(income, expense), savings), total_savings |-> savings]

\* "Calculate balance and total savings" at the end of calculate_totals
derive_balance(savings_switch, income, expense, savings) ==
    IF savings_switch
    THEN switch_on(fsub(income, expense), savings)
    ELSE [balance |-> fsub(fsub(income, expense), savings), total_savings |-> savings]

\* The start of a loop: empty totals and maps, the channel balances so far
Acc(blank, cash, mpesa, keyerror) ==
    [totals |-> blank, daily |-> EmptyMap, weekly |-> EmptyMap,
     cash |-> cash, mpesa |-> mpesa, keyerror |-> keyerror]

\* The tuple calculate_totals returns, from what its three loops left
totals_returned(inc, exp, sav, bal) ==
    IF sav.keyerror THEN [keyerror |-> TRUE]
    ELSE [keyerror       |-> FALSE,
          income_totals  |-> inc.totals,
          expense_totals |-> exp.totals,
          savings_totals |-> sav.totals,
          daily_income   |-> inc.daily,
          daily_expense  |-> exp.daily,
          daily_savings  |-> sav.daily,
          weekly_income  |-> inc.weekly,
          weekly_expense |-> exp.weekly,
          weekly_savings |-> sav.weekly,
          balance        |-> bal.balance,
          total_savings  |-> bal.total_savings,
          cash_balance   |-> sav.cash,
          mpesa_balance  |-> sav.mpesa]

after_savings(d, inc, exp, sav) ==
    totals_returned(inc, exp, sav,
        IF sav.keyerror THEN [balance |-> Float(0), total_savings |-> Float(0)]
        ELSE derive_balance(d["savings_switch"], inc.totals["total"],
                            exp.totals[S_total], sav.totals[S_total]))

after_expenses(d, flt, inc, exp) ==
    after_savings(d, inc, exp,
        aggregate(d["savings"], "category", category_bucket(d["savings_categories"]),
                  S_total, -1, flt,
                  Acc(category_bucket(d["savings_categories"]), exp.cash, exp.mpesa,
                      exp.keyerror)))

after_income(d, flt, inc) ==
    after_expenses(d, flt, inc,
        aggregate(d["expenses"], "category", category_bucket(d["expense_categories"]),
                  S_total, -1, flt,
                  Acc(category_bucket(d["expense_categories"]), inc.cash, inc.mpesa,
                      inc.keyerror)))

\* calculate_totals on the loaded document d
totals_of(d, flt) ==
    after_income(d, flt,
        aggregate(d["income"], "platform", income_bucket, "total", 1, flt,
                  Acc(income_bucket, Float(0), Float(0), FALSE)))

calculate_totals(file, flt) == totals_of(load_data(file), flt)

\* Menu options 9 to 12 give calculate_totals its filter; the report is
\* kept with the filter that produced it
ViewTotals(flt) ==
    /\ pc = "menu"
    /\ report' = [flt |-> flt, totals |-> calculate_totals(data, flt)]
    /\ last' = Last("calculate_totals", "ok", "", NoTrans, NoEntry)
    /\ UNCHANGED <<data, contacts, pc, mem, messages>>

----------------------------------------------------------------------------
(* The program at its menu: the answers the operator may give *)

T_1000 == <<"1","0","0","0">>
T_300  == <<"3","0","0">>
T_200  == <<"2","0","0">>
T_mpesa == <<"m","-","p","e","s","a">>
T_JOHN == <<"J","O","H","N">>
T_JANE == <<"J","A","N","E">>
T_FUEL == <<"T","O","T","A","L"," ","F","U","E","L">>
T_0712 == <<"0","7","1","2">>
T_0722 == <<"0","7","2","2">>

DateAnswers     == {DateEmpty, DateD(3)}
PlatformAnswers == {<<"4">>, <<"x">>}
IncomeAmounts   == {T_1000, <<"0">>}
ModeAnswers     == {T_mpesa, S_Cash}
ExpenseCategoryAnswers == {<<"f">>, <<"0">>}
SavingsCategoryAnswers == {<<"e">>, <<"2">>}

\* The lines a paste is made of (dates are day/month/2-digit year)
M_Invalid == Message("none", "", 0, <<>>, <<>>, <<1, 1, 25>>, 0)
M_Recv500 == Message("received", "RC1", 500, T_JOHN, T_0712, <<2, 1, 25>>, 1500)
M_Sent200 == Message("sent", "SE1", 200, T_FUEL, T_0722, <<2, 1, 25>>, 800)
M_Paid100 == Message("paid", "PD1", 100, T_FUEL, <<>>, <<2, 1, 25>>, 700)
M_Sent100 == Message("sent", "SE2", 100, T_JANE, T_0712, <<1, 1, 25>>, 900)
M_Future  == Message("paybill", "PB1", 200, T_FUEL, <<"A","7">>, <<3, 1, 25>>, 800)

Lines == {M_Invalid, M_Recv500, M_Sent200, M_Paid100, M_Sent100, M_Future}

\* Every paste of at most n lines
RECURSIVE Pastes(_)
Pastes(n) ==
    IF n = 0 THEN {<<>>}
    ELSE Pastes(n - 1) \cup {Append(p, l) : p \in {q \in Pastes(n - 1) : Len(q) = n - 1},
                                            l \in Lines}

Next ==
    \/ \E a \in DateAnswers, p \in PlatformAnswers, x \in IncomeAmounts,
          m \in ModeAnswers : AddIncome(a, p, x, m, "QX1")
    \/ \E c \in ExpenseCategoryAnswers, m \in {S_Cash, T_mpesa} :
          AddExpense(DateEmpty, c, T_300, m, "QX2")
    \/ \E c \in SavingsCategoryAnswers : AddSavings(DateEmpty, c, T_200, S_Cash, "")
    \/ \E n \in {<<"j","o","e">>} : SetMpesaDetails(n, T_0712)
    \/ \E lines \in Pastes(MaxBatch) : StartBatch(lines)
    \/ \E choice \in {"1", "2", "3"}, c \in {<<"1">>, <<"9">>} : BatchStep(choice, c)

Spec == Init /\ [][Next]_vars

----------------------------------------------------------------------------
(* Batch reconciliation: claims C1, C2, C3 and C6, under Spec *)

\* The line the loop is about to handle, parsed
NextTrans == parse_mpesa_message(Head(messages))

\* The loop is about to handle a line that parses and passes verification
NextVerified ==
    /\ pc = "batch" /\ messages # <<>>
    /\ NextTrans.kind = "trans"
    /\ verify_mpesa_balance(NextTrans, mem)

\* The loop is about to handle a line that parses and fails verification
NextMismatched ==
    /\ pc = "batch" /\ messages # <<>>
    /\ NextTrans.kind = "trans"
    /\ ~verify_mpesa_balance(NextTrans, mem)

\* C1: while a batch runs, the channel balance its verifications start from
\* is the channel balance of the ledger as it now stands, every transaction
\* the batch has appended so far included.
C1_RunningBalanceIsCurrent ==
    pc = "batch" =>
        calculate_mpesa_balance(mem) = calculate_mpesa_balance(load_data(data))

\* C2: a received line that passes verification is appended to the income
\* collection as one M-Pesa entry with platform Offline and the parsed
\* amount, date and transaction code.
C2_VerifiedIncomeIsAppended ==
    [][(NextVerified /\ NextTrans.type = "income") =>
          LET before == load_data(data)["income"]
              after  == load_data(data')["income"]
          IN  /\ Len(after) = Len(before) + 1
              /\ SubSeq(after, 1, Len(before)) = before
              /\ after[Len(after)].platform = "Offline"
              /\ after[Len(after)].payment_mode = S_MPesa
              /\ after[Len(after)].amount = NextTrans.amount
              /\ after[Len(after)].date = NextTrans.date
              /\ after[Len(after)].transaction_code = NextTrans.transaction_code]_vars

\* C3: handling a line whose balance verification fails leaves the income,
\* expense and savings collections as they were.
C3_MismatchLeavesLedger ==
    [][NextMismatched =>
          /\ load_data(data')["income"] = load_data(data)["income"]
          /\ load_data(data')["expenses"] = load_data(data)["expenses"]
          /\ load_data(data')["savings"] = load_data(data)["savings"]]_vars

\* C3 witness: a line was rejected for its balance while the ledger held entries
C3_Witness ==
    /\ last.op = "message" /\ last.result = "mismatch"
    /\ TotalEntries(data) > 0

\* C6: whatever happens to one line of a paste, the lines after it are still
\* handled: the loop goes on with the rest of the paste.
C6_LaterLinesStillHandled ==
    [][(pc = "batch" /\ Len(messages) > 1) =>
          (pc' = "batch" /\ messages' = Tail(messages))]_vars

----------------------------------------------------------------------------
(* verify_mpesa_balance as a function of the ledger and the transaction:   *)
(* claims C4 and C5, under SpecVerify                                      *)

\* The most entries, over its three collections, of a ledger SpecVerify
\* starts from
MaxVerifyLen == 3

\* Every list of at most n members of set
RECURSIVE ListsUpTo(_, _)
ListsUpTo(set, n) ==
    IF n = 0 THEN {<<>>}
    ELSE ListsUpTo(set, n - 1)
         \cup {Append(l, x) : l \in {q \in ListsUpTo(set, n - 1) : Len(q) = n - 1},
                              x \in set}

\* Entries as add_income, add_expense and add_savings store them
IncomeEntry(date, platform, amount, mode) ==
    [date |-> isoformat(date), platform |-> platform, amount |-> amount,
     notes |-> <<>>, payment_mode |-> mode,
     transaction_code |-> IF mode = S_MPesa THEN "QX1" ELSE ""]

CategoryEntry(date, category, amount, mode) ==
    [date |-> isoformat(date), category |-> category, amount |-> amount,
     notes |-> <<>>, payment_mode |-> mode,
     transaction_code |-> IF mode = S_MPesa THEN "QX2" ELSE ""]

VerifyIncome ==
    {IncomeEntry(Today, "Offline", Float(1000), m) : m \in {S_Cash, S_MPesa}}
    \cup {IncomeEntry(Today, "Uber", Float(10), S_MPesa)}
VerifyExpenses ==
    {CategoryEntry(Today, S_Fuel, Float(300), m) : m \in {S_Cash, S_MPesa}}
VerifySavings ==
    {CategoryEntry(Today, S_EmergencySavings, Float(5), m) : m \in {S_Cash, S_MPesa}}

\* The parsed transactions verified: the amounts and post-balances of the
\* scenarios, and post-balances 10 and 11 away from what is expected
VerifyTransactions ==
    {[kind |-> "trans", type |-> t, transaction_code |-> "RC1",
      amount |-> Float(500), name |-> T_JOHN, phone |-> <<>>,
      date |-> isoformat(Today), balance |-> Float(b)] :
        t \in {"income", "expense"},
        b \in {1500, 1490, 1489, 1480, 1450, 1510, 1511, 500, 510, 489, 185, 184}}

InitVerify ==
    /\ \E i \in ListsUpTo(VerifyIncome, MaxVerifyLen) :
          \E e \in ListsUpTo(VerifyExpenses, MaxVerifyLen - Len(i)) :
             \E v \in ListsUpTo(VerifySavings, MaxVerifyLen - Len(i) - Len(e)) :
                data = [DefaultData EXCEPT !["income"] = i, !["expenses"] = e,
                                           !["savings"] = v]
    /\ contacts = <<>>
    /\ pc = "menu"
    /\ mem = NoFile
    /\ messages = <<>>
    /\ last = Last("start", "", "", NoTrans, NoEntry)
    /\ report = NoReport

\* verify_mpesa_balance(trans, load_data())
Verify(trans) ==
    /\ last' = Last("verify",
                    IF verify_mpesa_balance(trans, load_data(data))
                    THEN "pass" ELSE "fail", "", trans, NoEntry)
    /\ UNCHANGED <<data, contacts, pc, mem, messages, report>>

NextVerify == \E trans \in VerifyTransactions : Verify(trans)

SpecVerify == InitVerify /\ [][NextVerify]_vars

\* The amounts of the channel-mode (M-Pesa) entries of a collection, summed
\* over the positions of the collection
RECURSIVE SumAt(_, _)
SumAt(entries, positions) ==
    IF positions = {} THEN Float(0)
    ELSE LET p == CHOOSE q \in positions : TRUE
         IN  fadd(entries[p].amount, SumAt(entries, positions \ {p}))

ChannelTotal(entries) ==
    SumAt(entries, {p \in 1..Len(entries) : entries[p].payment_mode = S_MPesa})

\* B: channel income minus channel expenses minus channel savings
ChannelBalance ==
    fsub(fsub(ChannelTotal(data["income"]), ChannelTotal(data["expenses"])),
         ChannelTotal(data["savings"]))

Expected(trans) ==
    IF trans.type = "income" THEN fadd(ChannelBalance, trans.amount)
    ELSE fsub(ChannelBalance, trans.amount)

\* C4: verification passes exactly when the expected post-balance, B + amount
\* for income and B - amount otherwise, is within 10 of the claimed one, B
\* being channel income minus channel expenses minus channel savings.
C4_PassIffWithinTen ==
    last.op = "verify" =>
        (last.result = "pass" <=>
            /\ ~fgt(fsub(Expected(last.trans), last.trans.balance), Float(10))
            /\ ~fgt(fsub(last.trans.balance, Expected(last.trans)), Float(10)))

\* C4 witness: a pass exactly 10 off, with a cash income beside channel
\* expenses and channel savings in the ledger
C4_Witness ==
    /\ last.op = "verify" /\ last.result = "pass"
    /\ fsub(Expected(last.trans), last.trans.balance) = Float(10)
    /\ fpos(ChannelTotal(data["expenses"])) /\ fpos(ChannelTotal(data["savings"]))
    /\ \E p \in 1..Len(data["income"]) : data["income"][p].payment_mode = S_Cash

\* The ledger of the scenario: its only channel-mode entry is an income of
\* 1000, and the parsed transaction is an income of 500
C5_Scenario ==
    /\ last.op = "verify"
    /\ last.trans.type = "income" /\ last.trans.amount = Float(500)
    /\ \E p \in 1..Len(data["income"]) :
          /\ data["income"][p].payment_mode = S_MPesa
          /\ data["income"][p].amount = Float(1000)
          /\ \A q \in 1..Len(data["income"]) :
                data["income"][q].payment_mode = S_MPesa => q = p
    /\ \A q \in 1..Len(data["expenses"]) : data["expenses"][q].payment_mode = S_Cash
    /\ \A q \in 1..Len(data["savings"]) : data["savings"][q].payment_mode = S_Cash

\* C5 as claimed: with that ledger, a claimed post-balance of 1500 passes,
\* 1480 passes and 1450 fails.
C5_AsClaimed ==
    C5_Scenario =>
        /\ last.trans.balance = Float(1500) => last.result = "pass"
        /\ last.trans.balance = Float(1480) => last.result = "pass"
        /\ last.trans.balance = Float(1450) => last.result = "fail"

\* C5 as amended: with that ledger, a claimed post-balance of 1500 passes,
\* 1480 (20 off) fails and 1450 fails.
C5_Amended ==
    C5_Scenario =>
        /\ last.trans.balance = Float(1500) => last.result = "pass"
        /\ last.trans.balance = Float(1480) => last.result = "fail"
        /\ last.trans.balance = Float(1450) => last.result = "fail"

\* C5 witness: the scenario with 1480 claimed, cash entries beside the income
C5_Witness ==
    /\ C5_Scenario
    /\ last.trans.balance = Float(1480) /\ last.result = "fail"
    /\ Len(data["income"]) > 1

----------------------------------------------------------------------------
(* calculate_totals as a function of the ledger and the filter: claims C7, *)
(* C8 and C9, under SpecTotals                                             *)

\* The most entries, over its three collections, of a ledger SpecTotals
\* starts from
MaxLedger == 3

\* Days either side of a year boundary: 2024-12-29 is in ISO week 2024-W52,
\* 2024-12-31 and 2025-01-01 are in ISO week 2025-W01
D_1229 == <<2024, 12, 29>>
D_1231 == <<2024, 12, 31>>
D_0101 == <<2025, 1, 1>>

\* Income of whole shillings and of cents, an expense and a saving
TotalsIncome ==
    {IncomeEntry(D_1229, "Uber", Float(1000), S_Cash),
     IncomeEntry(D_1231, "Uber", Float(1000), S_Cash),
     IncomeEntry(D_1231, "Bolt", F_0_1, S_MPesa),
     IncomeEntry(D_0101, "Uber", F_0_2, S_MPesa)}
TotalsExpenses == {CategoryEntry(D_1231, S_Fuel, Float(300), S_MPesa)}
TotalsSavings == {CategoryEntry(D_1231, S_EmergencySavings, Float(200), S_Cash)}

\* No filter, a day, three weeks and a month
TotalsFilters ==
    {Filter(None, None, None), Filter(D_1231, None, None),
     Filter(None, <<2025, 1>>, None), Filter(None, <<2024, 1>>, None),
     Filter(None, <<2024, 52>>, None), Filter(None, None, <<2024, 12>>)}

InitTotals ==
    /\ \E i \in ListsUpTo(TotalsIncome, MaxLedger) :
          \E e \in ListsUpTo(TotalsExpenses, MaxLedger - Len(i)) :
             \E v \in ListsUpTo(TotalsSavings, MaxLedger - Len(i) - Len(e)) :
                data = [DefaultData EXCEPT !["income"] = i, !["expenses"] = e,
                                           !["savings"] = v]
    /\ contacts = <<>>
    /\ pc = "menu"
    /\ mem = NoFile
    /\ messages = <<>>
    /\ last = Last("start", "", "", NoTrans, NoEntry)
    /\ report = NoReport

NextTotals ==
    \/ ToggleSavingsSwitch
    \/ \E flt \in TotalsFilters : ViewTotals(flt)

SpecTotals == InitTotals /\ [][NextTotals]_vars

\* A report of totals is on the screen
Reported == "totals" \in DOMAIN report /\ ~report.totals.keyerror

\* The sum of the "total" slots of the buckets of a per-day or per-week map
RECURSIVE BucketSum(_, _, _)
BucketSum(map, keys, total) ==
    IF keys = {} THEN Float(0)
    ELSE LET k == CHOOSE q \in keys : TRUE
         IN  fadd(map[k][total], BucketSum(map, keys \ {k}, total))

\* C7: for each of income, expenses and savings, and for every filter, the
\* overall total equals the sum of the per-day totals and equals the sum of
\* the per-week totals.
C7_TotalsAgree ==
    Reported =>
        /\ report.totals.income_totals["total"]
              = BucketSum(report.totals.daily_income,
                          DOMAIN report.totals.daily_income, "total")
        /\ report.totals.income_totals["total"]
              = BucketSum(report.totals.weekly_income,
                          DOMAIN report.totals.weekly_income, "total")
        /\ report.totals.expense_totals[S_total]
              = BucketSum(report.totals.daily_expense,
                          DOMAIN report.totals.daily_expense, S_total)
        /\ report.totals.expense_totals[S_total]
              = BucketSum(report.totals.weekly_expense,
                          DOMAIN report.totals.weekly_expense, S_total)
        /\ report.totals.savings_totals[S_total]
              = BucketSum(report.totals.daily_savings,
                          DOMAIN report.totals.daily_savings, S_total)
        /\ report.totals.savings_totals[S_total]
              = BucketSum(report.totals.weekly_savings,
                          DOMAIN report.totals.weekly_savings, S_total)

\* C8: with the switch off, balance = income - expenses - savings and the
\* reported savings are the savings entries; with it on, balance = income -
\* expenses and the reported savings are the savings entries plus
\* max(0, balance).  Income 1000, expenses 300, savings 0 give 700 and 700
\* with the switch on, 700 and 0 with it off.
C8_BalanceBySwitch ==
    Reported =>
        /\ ~load_data(data)["savings_switch"] =>
              /\ report.totals.balance
                    = fsub(fsub(report.totals.income_totals["total"],
                                report.totals.expense_totals[S_total]),
                           report.totals.savings_totals[S_total])
              /\ report.totals.total_savings = report.totals.savings_totals[S_total]
        /\ load_data(data)["savings_switch"] =>
              /\ report.totals.balance
                    = fsub(report.totals.income_totals["total"],
                           report.totals.expense_totals[S_total])
              /\ report.totals.total_savings
                    = fadd(report.totals.savings_totals[S_total],
                           IF report.totals.balance.neg
                           THEN Float(0) ELSE report.totals.balance)
        /\ (/\ report.totals.income_totals["total"] = Float(1000)
            /\ report.totals.expense_totals[S_total] = Float(300)
            /\ report.totals.savings_totals[S_total] = Float(0)) =>
              /\ report.totals.balance = Float(700)
              /\ report.totals.total_savings
                    = IF load_data(data)["savings_switch"] THEN Float(700) ELSE Float(0)

\* C8 witness: income 1000, expenses 300 and no savings, with the switch on
C8_Witness ==
    /\ Reported
    /\ load_data(data)["savings_switch"]
    /\ report.totals.income_totals["total"] = Float(1000)
    /\ report.totals.expense_totals[S_total] = Float(300)
    /\ report.totals.savings_totals[S_total] = Float(0)
    /\ report.totals.balance = Float(700)
    /\ report.totals.total_savings = Float(700)

\* The dates of the entries of a collection that the report's filter includes
IncludedDates(entries) ==
    {fromisoformat(entries[p].date) :
        p \in {q \in 1..Len(entries) :
                  included(fromisoformat(entries[q].date), report.flt)}}

\* The weekly keys a collection's included entries call for: ISO year and
\* ISO week number of each entry date
IsoKeys(entries) ==
    {format_week(isocalendar(d)[1], isocalendar(d)[2]) : d \in IncludedDates(entries)}

BucketedByIsoWeek(entries, weekly) ==
    /\ DOMAIN weekly = IsoKeys(entries)
    /\ D_1231 \in IncludedDates(entries) => "2025-W01" \in DOMAIN weekly
    /\ (IncludedDates(entries) # {} /\ IncludedDates(entries) \subseteq {D_1231, D_0101}) =>
          DOMAIN weekly = {"2025-W01"}
    /\ D_1229 \in IncludedDates(entries) => "2024-W52" \in DOMAIN weekly

\* C9: every included entry is bucketed under the ISO year and ISO week
\* number of its date; an entry dated 2024-12-31 is bucketed under 2025-W01
\* and never under a key of the calendar year 2024.
C9_IsoWeekBuckets ==
    Reported =>
        /\ BucketedByIsoWeek(load_data(data)["income"], report.totals.weekly_income)
        /\ BucketedByIsoWeek(load_data(data)["expenses"], report.totals.weekly_expense)
        /\ BucketedByIsoWeek(load_data(data)["savings"], report.totals.weekly_savings)

\* C9 witness: an income entry dated 2024-12-31 is reported under 2025-W01
C9_Witness ==
    /\ Reported
    /\ D_1231 \in IncludedDates(load_data(data)["income"])
    /\ "2025-W01" \in DOMAIN report.totals.weekly_income
    /\ fpos(report.totals.weekly_income["2025-W01"]["total"])

\* The dates of the entries of a collection that lie in ISO week week[2] of
\* ISO year week[1]
DatesOfIsoWeek(entries, week) ==
    {fromisoformat(entries[p].date) :
        p \in {q \in 1..Len(entries) :
                  /\ isocalendar(fromisoformat(entries[q].date))[1] = week[1]
                  /\ isocalendar(fromisoformat(entries[q].date))[2] = week[2]}}

\* The per-day and per-week maps of a collection hold the entries of the ISO
\* week of the filter and no others
OnlyIsoWeek(entries, daily, weekly, week) ==
    /\ DOMAIN daily = {isoformat(d) : d \in DatesOfIsoWeek(entries, week)}
    /\ DOMAIN weekly = {format_week(week[1], week[2]) : d \in DatesOfIsoWeek(entries, week)}

\* C18: with the week filter (Y, W), the entries calculate_totals includes
\* are those whose date has ISO year Y and ISO week W: the per-day maps have
\* the days of exactly those entries and the per-week maps have no key other
\* than Y-W<WW>, which is there when such an entry exists.
C18_WeekFilterIsIso ==
    (Reported /\ report.flt.week # None) =>
        /\ OnlyIsoWeek(load_data(data)["income"], report.totals.daily_income,
                       report.totals.weekly_income, report.flt.week)
        /\ OnlyIsoWeek(load_data(data)["expenses"], report.totals.daily_expense,
                       report.totals.weekly_expense, report.flt.week)
        /\ OnlyIsoWeek(load_data(data)["savings"], report.totals.daily_savings,
                       report.totals.weekly_savings, report.flt.week)

----------------------------------------------------------------------------
(* validate_category as a function of the category list and the answer:    *)
(* claim C10, under SpecCategory                                           *)

\* The longest list of savings categories SpecCategory starts from
MaxCategories == 2

T_3 == <<"3">>

\* Names a savings category may have; one of them reads as a number
CategoryNames == {S_EmergencySavings, S_Fuel, S_Food, T_3}

CategoryLists ==
    {l \in ListsUpTo(CategoryNames, MaxCategories) :
        \A i, j \in 1..Len(l) : l[i] = l[j] => i = j}

\* Answers to the category prompt, each with the integer it reads as, if any
Answer(text, isint, int) == [text |-> text, isint |-> isint, int |-> int]

CategoryAnswers ==
    {Answer(<<"0">>, TRUE, 0), Answer(<<"1">>, TRUE, 1), Answer(<<"2">>, TRUE, 2),
     Answer(<<"3">>, TRUE, 3), Answer(<<"4">>, TRUE, 4),
     Answer(<<"-","1">>, TRUE, -1), Answer(<<"+","2">>, TRUE, 2),
     Answer(<<" ","2"," ">>, TRUE, 2), Answer(<<"0","1">>, TRUE, 1),
     Answer(<<"f">>, FALSE, 0), Answer(<<"x">>, FALSE, 0)}

InitCategory ==
    /\ data \in {[DefaultData EXCEPT !["savings_categories"] = l] : l \in CategoryLists}
    /\ contacts = <<>>
    /\ pc = "menu"
    /\ mem = NoFile
    /\ messages = <<>>
    /\ last = Last("start", "", "", NoTrans, NoEntry)
    /\ report = NoReport

\* validate_category(answer, data["savings_categories"], "savings")
ResolveCategory(answer) ==
    /\ report' = [answer   |-> answer,
                  resolved |-> validate_category(answer.text,
                                   load_data(data)["savings_categories"], "savings")]
    /\ last' = Last("validate_category", "", "", NoTrans, NoEntry)
    /\ UNCHANGED <<data, contacts, pc, mem, messages>>

NextCategory == \E answer \in CategoryAnswers : ResolveCategory(answer)

SpecCategory == InitCategory /\ [][NextCategory]_vars

\* C10: an answer that reads as the integer i resolves to the i-th category
\* of the list when 1 <= i <= the length of the list, and otherwise fails as
\* an invalid category, whatever the names in the list.
C10_IndexResolves ==
    ("resolved" \in DOMAIN report /\ report.answer.isint) =>
        IF 1 <= report.answer.int
           /\ report.answer.int <= Len(load_data(data)["savings_categories"])
        THEN report.resolved
                = Ok(load_data(data)["savings_categories"][report.answer.int])
        ELSE report.resolved = Err("InvalidCategory")

\* C10 witness: the answer 3 is out of range of a list that holds a category
\* named 3
C10_Witness ==
    /\ "resolved" \in DOMAIN report
    /\ report.answer.int = 3
    /\ load_data(data)["savings_categories"] = <<S_Fuel, T_3>>
    /\ ~report.resolved.ok

----------------------------------------------------------------------------
(* manage_categories: menu options 5 and 6 *)

\* categories_key = f"{category_type}_categories"
categories_key(category_type) == category_type \o "_categories"

\* What one turn of the loop of manage_categories leaves: the document in
\* memory, whether save_data ran, and what the turn printed
Turned(d, saved, out) == [doc |-> d, saved |-> saved, out |-> out]

\* Choice 1, new_cat the stripped and title-cased answer
add_category(d, category_type, new_cat) ==
    IF InList(new_cat, d[categories_key(category_type)]) THEN Turned(d, FALSE, "exists")
    ELSE IF new_cat = <<>> THEN Turned(d, FALSE, "empty")
    ELSE Turned([d EXCEPT ![categories_key(category_type)] = Append(@, new_cat)],
                TRUE, "added")

\* A mutation of cascaded: the entries are left as they were
cascaded_nowhere(entries, old_cat, new_name) == entries

\* for entry in data[entries_key]: if entry["category"] == old_cat: ...
cascaded(entries, old_cat, new_name) ==
    [i \in 1..Len(entries) |->
        IF entries[i].category = old_cat
        THEN [entries[i] EXCEPT !.category = new_name] ELSE entries[i]]

\* A mutation of modify_category: the list is changed and the entries are not
modify_category_list_only(d, category_type, idx, new_name) ==
    IF ~(0 <= idx /\ idx < Len(d[categories_key(category_type)]))
          \/ InList(new_name, d[categories_key(category_type)]) \/ new_name = <<>>
    THEN Turned(d, FALSE, "refused")
    ELSE Turned([d EXCEPT ![categories_key(category_type)] = [@ EXCEPT ![idx + 1] = new_name]],
                TRUE, "modified")

\* Choice 2, idx the 0-based index and new_name the stripped and title-cased
\* answer
modify_category(d, category_type, idx, new_name) ==
    IF ~(0 <= idx /\ idx < Len(d[categories_key(category_type)]))
    THEN Turned(d, FALSE, "invalid_number")
    ELSE IF InList(new_name, d[categories_key(category_type)]) THEN Turned(d, FALSE, "exists")
    ELSE IF new_name = <<>> THEN Turned(d, FALSE, "empty")
    ELSE IF category_type \notin DOMAIN d THEN Turned(d, FALSE, "KeyError")
    ELSE Turned([d EXCEPT
                    ![category_type] =
                        cascaded(@, d[categories_key(category_type)][idx + 1], new_name),
                    ![categories_key(category_type)] = [@ EXCEPT ![idx + 1] = new_name]],
                TRUE, "modified")

\* A mutation of in_use: no category counts as used
in_use_never(entries, cat) == FALSE

\* any(entry["category"] == cat for entry in data[entries_key])
in_use(entries, cat) == \E i \in 1..Len(entries) : entries[i].category = cat

\* list.pop(idx)
pop(list, idx) == SubSeq(list, 1, idx) \o SubSeq(list, idx + 2, Len(list))

\* Choice 3, idx the 0-based index
delete_category(d, category_type, idx) ==
    IF ~(0 <= idx /\ idx < Len(d[categories_key(category_type)]))
    THEN Turned(d, FALSE, "invalid_number")
    ELSE IF category_type \notin DOMAIN d THEN Turned(d, FALSE, "KeyError")
    ELSE IF in_use(d[category_type], d[categories_key(category_type)][idx + 1])
    THEN Turned(d, FALSE, "in_use")
    ELSE Turned([d EXCEPT ![categories_key(category_type)] = pop(@, idx)],
                TRUE, "deleted")

\* The body of the loop: int(cat_num) raises ValueError, caught in the loop
manage_turn(d, category_type, choice, cat_num, name) ==
    IF choice = "1" THEN add_category(d, category_type, title(strip(name)))
    ELSE IF choice \in {"2", "3"} /\ ~IsIntText(cat_num) THEN Turned(d, FALSE, "ValueError")
    ELSE IF choice = "2"
    THEN modify_category(d, category_type, IntOf(cat_num) - 1, title(strip(name)))
    ELSE IF choice = "3" THEN delete_category(d, category_type, IntOf(cat_num) - 1)
    ELSE IF choice = "4" THEN Turned(d, FALSE, "back")
    ELSE Turned(d, FALSE, "invalid_choice")

\* Bound of the model: names in a category list that is being managed
MaxListed == 3

\* The category type of the manage_categories call that is running
Managing == pc \in {"manage_expenses", "manage_savings"}
category_type_managed == IF pc = "manage_expenses" THEN "expenses" ELSE "savings"

\* Menu option 5, manage_categories("expenses"), and menu option 6,
\* manage_categories("savings"), up to the first prompt: the document is
\* loaded and the categories are listed.  data[categories_key] of a key the
\* document does not have raises KeyError outside the try of the loop, and
\* main reports it and shows the menu again
ManageCategories(category_type) ==
    /\ pc = "menu"
    /\ IF categories_key(category_type) \in DOMAIN load_data(data)
       THEN /\ pc' = "manage_" \o category_type
            /\ mem' = load_data(data)
            /\ last' = Last("manage_categories", "listed", "", NoTrans, NoEntry)
       ELSE /\ last' = Last("manage_categories", "raised", "KeyError", NoTrans, NoEntry)
            /\ UNCHANGED <<pc, mem>>
    /\ report' = NoReport
    /\ UNCHANGED <<data, contacts, messages>>

\* What a turn of the loop leaves behind
ManageTurn(t) ==
    /\ data' = IF t.saved THEN save_data(t.doc) ELSE data
    /\ mem' = IF t.out = "back" THEN NoFile ELSE t.doc
    /\ pc' = IF t.out = "back" THEN "menu" ELSE pc
    /\ last' = Last("manage_categories", t.out, "", NoTrans, NoEntry)

\* One turn of the loop of manage_categories
ManageStep(choice, cat_num, name) ==
    /\ Managing
    /\ (choice = "1" => Len(mem[categories_key(category_type_managed)]) < MaxListed)
    /\ ManageTurn(manage_turn(mem, category_type_managed, choice, cat_num, name))
    /\ report' = NoReport
    /\ UNCHANGED <<contacts, messages>>

\* Answers of the operator to the prompts of manage_categories
T_school == <<"s","c","h","o","o","l">>
T_emergency == <<"e","m","e","r","g","e","n","c","y">>
S_School == <<"S","c","h","o","o","l">>
S_Emergency == <<"E","m","e","r","g","e","n","c","y">>
ManageNames == {T_school, T_emergency, <<>>}
ManageNumbers == {<<"1">>, <<"2">>, <<"x">>}

\* The ledger and its category lists: recording, batch and category
\* management from a fresh installation
NextLedger ==
    \/ AddIncome(DateEmpty, <<"4">>, T_1000, T_mpesa, "QX1")
    \/ \E c \in {<<"f">>, <<"0">>} : AddExpense(DateEmpty, c, T_300, S_Cash, "")
    \/ \E c \in {<<"1">>, <<"2">>, <<"x">>} : AddSavings(DateEmpty, c, T_200, S_Cash, "")
    \/ \E n \in {<<"j","o","e">>} : SetMpesaDetails(n, T_0712)
    \/ \E lines \in {<<M_Sent200>>, <<M_Sent100>>} : StartBatch(lines)
    \/ \E choice \in {"1", "2", "3"}, c \in {<<"1">>, <<"9">>} : BatchStep(choice, c)
    \/ \E category_type \in {"expenses", "savings"} : ManageCategories(category_type)
    \/ \E name \in ManageNames : ManageStep("1", <<>>, name)
    \/ \E cat_num \in ManageNumbers, name \in ManageNames : ManageStep("2", cat_num, name)
    \/ \E cat_num \in ManageNumbers : ManageStep("3", cat_num, <<>>)
    \/ \E choice \in {"4", "5"} : ManageStep(choice, <<>>, <<>>)

SpecLedger == Init /\ [][NextLedger]_vars

----------------------------------------------------------------------------
(* Category management: claims C11, C12, C19 and C20, under SpecLedger *)

\* The entries of a stored document that reference category cat
Referencing(entries, cat) == {k \in 1..Len(entries) : entries[k].category = cat}

\* list is list0 with B in the place of the name at position i, and entries
\* is entries0 with B in the place of that name, nothing else different
RenamedAt(i, list0, entries0, list, entries) ==
    /\ list[i] # list0[i]
    /\ list = [list0 EXCEPT ![i] = list[i]]
    /\ Len(entries) = Len(entries0)
    /\ Referencing(entries, list0[i]) = {}
    /\ \A k \in Referencing(entries0, list0[i]) :
          entries[k] = [entries0[k] EXCEPT !.category = list[i]]
    /\ \A k \in (1..Len(entries0)) \ Referencing(entries0, list0[i]) :
          entries[k] = entries0[k]

\* The stored document changed from file0 to file by the rename of one
\* category of the ledger category_type
Renamed(category_type, file0, file) ==
    \E i \in 1..Len(file0[categories_key(category_type)]) :
        RenamedAt(i, file0[categories_key(category_type)], file0[category_type],
                  file[categories_key(category_type)], file[category_type])

\* C11: when a rename of category A to B succeeds in manage_categories, then
\* in the stored document no entry of that ledger references A any more, every
\* entry that referenced A references B and is otherwise the same, every other
\* entry is unchanged, and the category list is the same except that B stands
\* where A stood.
C11_RenameCascades ==
    [][(Managing /\ last'.op = "manage_categories" /\ last'.result = "modified")
         => Renamed(category_type_managed, load_data(data), load_data(data'))]_vars

\* C11 witness: Emergency Savings was renamed to Emergency while one savings
\* entry referenced it and another referenced School
C11_Witness ==
    /\ last.op = "manage_categories" /\ last.result = "modified"
    /\ load_data(data)["savings_categories"] = <<S_Emergency, S_School>>
    /\ Referencing(load_data(data)["savings"], S_Emergency) # {}
    /\ Referencing(load_data(data)["savings"], S_School) # {}

\* The ledger and the category list the running manage_categories works on
ManagedList == mem[categories_key(category_type_managed)]
ManagedEntries == mem[category_type_managed]

\* The answer cat_num is the number of a category that an entry references
NumbersUsed(cat_num) ==
    /\ IsIntText(cat_num)
    /\ 1 <= IntOf(cat_num) /\ IntOf(cat_num) <= Len(ManagedList)
    /\ Referencing(ManagedEntries, ManagedList[IntOf(cat_num)]) # {}

\* Every name of list0 that an entry of entries0 references is still in list
UsedNamesStay(list0, entries0, list) ==
    \A i \in 1..Len(list0) :
        Referencing(entries0, list0[i]) # {} => InList(list0[i], list)

\* C12: a category is never removed from its list while an entry of its
\* ledger references it (a used name leaves the list only by a rename), and a
\* delete request for such a category (a turn with choice 3 that ends in
\* "Deleted ..." or "Cannot delete ...") is refused and leaves the stored
\* category lists and entries unchanged.
C12_UsedCategoryStays ==
    [][/\ (data' # data /\ last'.result # "modified") =>
            /\ UsedNamesStay(load_data(data)["expense_categories"],
                             load_data(data)["expenses"],
                             load_data(data')["expense_categories"])
            /\ UsedNamesStay(load_data(data)["savings_categories"],
                             load_data(data)["savings"],
                             load_data(data')["savings_categories"])
       /\ (Managing /\ last'.result \in {"deleted", "in_use"}) =>
            \A cat_num \in ManageNumbers :
               (NumbersUsed(cat_num) /\ ManageStep("3", cat_num, <<>>))
                  => (data' = data /\ mem' = mem /\ last'.result = "in_use")]_vars

\* C12 witness: the delete of Emergency Savings, which a savings entry
\* references, was refused while the list held another name as well
C12_Witness ==
    /\ pc = "manage_savings"
    /\ last.op = "manage_categories" /\ last.result = "in_use"
    /\ ManagedList = <<S_EmergencySavings, S_School>>
    /\ Referencing(ManagedEntries, S_EmergencySavings) # {}
    /\ Referencing(ManagedEntries, S_School) = {}

\* The three collections of entries of a stored document
Entries(file) == <<file["income"], file["expenses"], file["savings"]>>

\* C19: menu option 5 brings up category management on the expense category
\* list, and there the addition of a new, non-empty name that is not in the
\* list puts it at the end of the expense category list and leaves the savings
\* category list and all entries unchanged.
C19_Option5ManagesExpenses ==
    [][/\ ManageCategories("expenses") =>
            (pc' = "manage_expenses" /\ last'.result = "listed"
                /\ mem'["expense_categories"] = load_data(data)["expense_categories"])
       /\ (pc = "manage_expenses" /\ last'.result = "added") =>
            /\ \E name \in ManageNames :
                  load_data(data')["expense_categories"]
                     = Append(load_data(data)["expense_categories"], title(strip(name)))
            /\ load_data(data')["savings_categories"] = load_data(data)["savings_categories"]
            /\ Entries(load_data(data')) = Entries(load_data(data))]_vars

\* Every entry of the list entries has its category in the list categories
AllListed(entries, categories) ==
    \A k \in 1..Len(entries) : InList(entries[k].category, categories)

\* C20: in every state reached from the default document by recording,
\* batch reconciliation and category management, every stored expense entry's
\* category is in the expense category list and every stored savings entry's
\* category is in the savings category list.
C20_ReferentialIntegrity ==
    /\ AllListed(load_data(data)["expenses"], load_data(data)["expense_categories"])
    /\ AllListed(load_data(data)["savings"], load_data(data)["savings_categories"])

\* C20 witness: the ledger holds an expense from the batch and a savings
\* entry whose category has been renamed, after the one unused savings
\* category has been deleted
C20_Witness ==
    /\ last.op = "manage_categories" /\ last.result = "deleted"
    /\ load_data(data)["savings_categories"] = <<S_Emergency>>
    /\ Referencing(load_data(data)["savings"], S_Emergency) # {}
    /\ \E k \in 1..Len(load_data(data)["expenses"]) :
          load_data(data)["expenses"][k].transaction_code = "SE2"

----------------------------------------------------------------------------
(* Uncategorized transactions of a batch: claim C17, under Spec *)

\* The loop is about to handle a verified line that is not an income and
\* whose counterparty name suggests no category of the expense list
NextUncategorized ==
    /\ NextVerified
    /\ NextTrans.type # "income"
    /\ ~(smart_categorize(NextTrans.name) # <<>>
          /\ InList(smart_categorize(NextTrans.name), mem["expense_categories"]))

\* The entry a turn appended to collection key of the stored document has
\* the transaction's code and one of the categories of list
AppendedTo(key, list) ==
    /\ Len(load_data(data')[key]) = Len(load_data(data)[key]) + 1
    /\ SubSeq(load_data(data')[key], 1, Len(load_data(data)[key])) = load_data(data)[key]
    /\ load_data(data')[key][Len(load_data(data')[key])].transaction_code
          = NextTrans.transaction_code
    /\ InList(load_data(data')[key][Len(load_data(data')[key])].category, list)

\* The collection key of the stored document is the same after the turn
Same(key) == load_data(data')[key] = load_data(data)[key]

\* C17: a turn of the batch on a verified, uncategorized expense-kind
\* transaction changes the stored entries only as the operator answered: with
\* the answer "expense" and a valid category the entry is appended to expenses
\* and to nothing else, with "savings" and a valid category to savings and to
\* nothing else, and with any other answer the stored document is unchanged
\* and the line "Skipped transaction <code>" is logged; an answer with a
\* category that does not resolve appends nothing.
C17_NoSilentDefault ==
    [][(NextUncategorized /\ last'.op = "message") =>
        \A choice \in {"1", "2", "3"}, c \in {<<"1">>, <<"9">>} :
           BatchStep(choice, c) =>
              /\ Same("income")
              /\ ~Same("expenses") =>
                    (choice = "1" /\ Same("savings")
                       /\ validate_category(c, mem["expense_categories"], "expense").ok
                       /\ AppendedTo("expenses", mem["expense_categories"]))
              /\ ~Same("savings") =>
                    (choice = "2" /\ Same("expenses")
                       /\ validate_category(c, mem["savings_categories"], "savings").ok
                       /\ AppendedTo("savings", mem["savings_categories"]))
              /\ choice = "3" =>
                    (data' = data
                       /\ report'.logged = LogLine("Skipped transaction",
                                                   NextTrans.transaction_code))]_vars

\* C17 witness: a verified transaction to a name without a keyword was
\* skipped, and the ledger still holds only what it held
C17_Witness ==
    /\ last.op = "message" /\ last.result = "skipped"
    /\ last.trans.transaction_code = "SE2"
    /\ report = [logged |-> LogLine("Skipped transaction", "SE2")]
    /\ Len(load_data(data)["income"]) = 1
    /\ load_data(data)["expenses"] = <<>> /\ load_data(data)["savings"] = <<>>

----------------------------------------------------------------------------
(* The stored document: load_data on documents that lack keys, and         *)
(* save_data interrupted.  Claims C13 and C14, under SpecStore              *)

\* The top-level members of a document in the order json.dump writes them
KeyOrder ==
    <<"income", "expenses", "savings", "expense_categories", "savings_categories",
      "savings_switch", "mpesa_details">>

\* The first k members of document d, in that order
FirstKeys(d, k) ==
    {KeyOrder[j] : j \in {i \in 1..Len(KeyOrder) :
                            /\ KeyOrder[i] \in DOMAIN d
                            /\ Cardinality({h \in 1..i : KeyOrder[h] \in DOMAIN d}) <= k}}

\* DATA_FILE while json.dump(data, f) runs on it: the text up to the k-th
\* member of d, the rest and the closing brace not yet there.  open(.., 'w')
\* leaves k = 0, the empty file
Written(d, k) == [written |-> k, text |-> [key \in FirstKeys(d, k) |-> d[key]]]

\* A stored document with none of its values the default
StoredFull ==
    [income             |-> <<IncomeEntry(Today, "Uber", Float(1000), S_Cash)>>,
     expenses           |-> <<CategoryEntry(Today, S_Fuel, Float(300), S_Cash)>>,
     savings            |-> <<CategoryEntry(Today, S_School, Float(200), S_Cash)>>,
     expense_categories |-> <<S_Fuel>>,
     savings_categories |-> <<S_School>>,
     savings_switch     |-> TRUE,
     mpesa_details      |-> [name |-> <<"J","o","e">>, phone |-> T_0712]]

\* DATA_FILE exists and holds any subset of the top-level keys
InitStore ==
    /\ data \in {[key \in keys |-> StoredFull[key]] : keys \in SUBSET DOMAIN StoredFull}
    /\ contacts = <<>>
    /\ pc = "menu"
    /\ mem = NoFile
    /\ messages = <<>>
    /\ last = Last("start", "", "", NoTrans, NoEntry)
    /\ report = NoReport

\* data = load_data(), as at the head of the menu loop and of every operation
LoadData ==
    /\ pc = "menu"
    /\ report' = [loaded |-> load_data(data)]
    /\ last' = Last("load_data", "ok", "", NoTrans, NoEntry)
    /\ UNCHANGED <<data, contacts, pc, mem, messages>>

\* toggle_savings_switch up to "with open(DATA_FILE, 'w') as f" of save_data:
\* the new document is in memory and the file has been truncated
SaveOpen ==
    /\ pc = "menu"
    /\ pc' = "save_data"
    /\ mem' = [load_data(data) EXCEPT !["savings_switch"] = ~@]
    /\ report' = [previous |-> data]
    /\ data' = Written(mem', 0)
    /\ last' = Last("save_data", "open", "", NoTrans, NoEntry)
    /\ UNCHANGED <<contacts, messages>>

\* json.dump(data, f, indent=4): the next member reaches the file
SaveWrite ==
    /\ pc = "save_data"
    /\ data.written < Cardinality(DOMAIN mem)
    /\ data' = Written(mem, data.written + 1)
    /\ last' = Last("save_data", "write", "", NoTrans, NoEntry)
    /\ UNCHANGED <<contacts, pc, mem, messages, report>>

\* The end of the dump and of the with block: the document is complete
SaveClose ==
    /\ pc = "save_data"
    /\ data.written = Cardinality(DOMAIN mem)
    /\ data' = mem
    /\ pc' = "menu"
    /\ mem' = NoFile
    /\ report' = NoReport
    /\ last' = Last("save_data", "ok", "", NoTrans, NoEntry)
    /\ UNCHANGED <<contacts, messages>>

\* A storage failure (OSError from a write, or the process stopped) while
\* save_data runs: the file stays as far as it was written
StorageFailure ==
    /\ pc = "save_data"
    /\ pc' = "failed"
    /\ last' = Last("save_data", "raised", "OSError", NoTrans, NoEntry)
    /\ UNCHANGED <<data, contacts, mem, messages, report>>

NextStore == LoadData \/ SaveOpen \/ SaveWrite \/ SaveClose \/ StorageFailure

SpecStore == InitStore /\ [][NextStore]_vars

\* C13: the document load_data returns for an existing file has every one of
\* the seven top-level keys, a key the file has with the file's value and a
\* key the file lacks with its default.
C13_LoadFillsEveryKey ==
    "loaded" \in DOMAIN report =>
        /\ DOMAIN report.loaded = DOMAIN DefaultData
        /\ \A key \in DOMAIN DefaultData :
              report.loaded[key] = IF key \in DOMAIN data THEN data[key]
                                   ELSE DefaultData[key]

\* C14: when a storage failure has interrupted save_data, the file holds
\* either the complete document it held before the save or the complete new
\* document, never an empty or a partial one.
C14_SaveAllOrNothing ==
    pc = "failed" => (data = report.previous \/ data = mem)

----------------------------------------------------------------------------
(* Recording through the menu and the batch, with amounts that are not     *)
(* numbers among the answers.  Claim C15, under SpecRecord                  *)

T_nan == <<"n","a","n">>
RecordAmounts == {T_200, <<"0">>, <<"-","5">>, T_nan}

NextRecord ==
    \/ \E a \in DateAnswers, x \in RecordAmounts :
          AddIncome(a, <<"4">>, x, T_mpesa, "QX1")
    \/ \E x \in RecordAmounts, m \in ModeAnswers :
          AddExpense(DateEmpty, <<"f">>, x, m, "QX2")
    \/ \E a \in DateAnswers, x \in RecordAmounts :
          AddSavings(a, <<"e">>, x, S_Cash, "")
    \/ \E n \in {<<"j","o","e">>} : SetMpesaDetails(n, T_0712)
    \/ \E lines \in {<<M_Sent200>>, <<M_Sent100>>, <<M_Future>>} : StartBatch(lines)
    \/ \E choice \in {"1", "2", "3"} : BatchStep(choice, <<"1">>)

SpecRecord == Init /\ [][NextRecord]_vars

\* An entry as the claim has it: a positive amount, a date not after the
\* current day, and no transaction code unless the mode is M-Pesa
EntryValid(entry) ==
    /\ fpos(entry.amount)
    /\ ToOrdinal(fromisoformat(entry.date)) <= ToOrdinal(Today)
    /\ entry.payment_mode # S_MPesa => entry.transaction_code = ""

AllValid(entries) == \A k \in 1..Len(entries) : EntryValid(entries[k])

\* C15: in every state reached from the default document by recording
\* income, expenses and savings and by batch reconciliation, every stored
\* entry has an amount greater than zero, a date not after the current day,
\* and an empty transaction code unless its payment mode is M-Pesa.
C15_EntriesValid ==
    /\ AllValid(load_data(data)["income"])
    /\ AllValid(load_data(data)["expenses"])
    /\ AllValid(load_data(data)["savings"])

----------------------------------------------------------------------------
(* The command surface: main run with a command.  Claim C16, under         *)
(* SpecCommand                                                              *)

\* The arguments of a command: target is --platform or --category
Arguments(command, date, target, amount, mode) ==
    [command |-> command, date |-> date, target |-> target, amount |-> amount,
     mode |-> mode]

\* The branch of main for args.command, args.amount the float that argparse
\* made of --amount
commanded(file, args, amount, transcode) ==
    IF args.command = "income"
    THEN add_income(file, args.date, args.target, amount, <<>>, args.mode, transcode)
    ELSE IF args.command = "expense"
    THEN add_expense(file, args.date, args.target, amount, <<>>, args.mode, transcode)
    ELSE add_savings(file, args.date, args.target, amount, <<>>, args.mode, transcode)

\* A mutation of exit_status: the run ends with sys.exit(0) either way
exit_status_zero(r) == 0

\* sys.exit(0) at the end of the try block, sys.exit(1) in "except ValueError"
exit_status(r) == IF r.ok THEN 0 ELSE 1

\* What the run leaves: the stored document and the exit status
Exited(args, r) ==
    /\ data' = IF r.ok THEN r.file ELSE data
    /\ last' = Last("command", ToString(exit_status(r)), IF r.ok THEN "" ELSE r.err,
                    NoTrans, IF r.ok THEN r.entry ELSE NoEntry)
    /\ report' = args

\* A run of the program with a command.  argparse converts --amount with
\* type=float and ends the run with status 2 when float() raises
Command(args, transcode) ==
    /\ pc = "menu"
    /\ TotalEntries(data) < MaxEntries
    /\ IF float_of(args.amount).ok
       THEN Exited(args, commanded(data, args, AmountNum(float_of(args.amount).val),
                                   transcode))
       ELSE /\ last' = Last("command", "2", "usage", NoTrans, NoEntry)
            /\ report' = args
            /\ UNCHANGED data
    /\ UNCHANGED <<contacts, pc, mem, messages>>

\* The command lines of the model: for each command one that is valid, and
\* the ones that differ from it in one argument, or in all of them
ValidLine(command) == Arguments(command, DateYMD(2025, 1, 1), <<"1">>, T_300, S_Cash)
CommandLinesOf(v) ==
    {v, [v EXCEPT !.date = DateD(3)], [v EXCEPT !.date = DateBad],
     [v EXCEPT !.target = <<"z">>], [v EXCEPT !.amount = <<"0">>],
     [v EXCEPT !.amount = <<"-","5">>], [v EXCEPT !.amount = <<"a","b","c">>],
     [v EXCEPT !.mode = <<"c","a","r","d">>], [v EXCEPT !.mode = T_mpesa],
     Arguments(v.command, DateBad, <<"z">>, <<"0">>, <<"c","a","r","d">>)}
CommandLines == UNION {CommandLinesOf(ValidLine(c)) : c \in {"income", "expense", "savings"}}

NextCommand == \E args \in CommandLines : Command(args, "QX3")

SpecCommand == Init /\ [][NextCommand]_vars

\* One of the validations of the command args fails on the stored document
\* file: the date, the platform or category, the amount, or the payment mode
SomeInvalid(args, file) ==
    \/ ~parse_date(args.date).ok
    \/ args.command = "income" /\ ~validate_platform(args.target).ok
    \/ args.command = "expense"
          /\ ~validate_category(args.target, file["expense_categories"], "expenses").ok
    \/ args.command = "savings"
          /\ ~validate_category(args.target, file["savings_categories"], "savings").ok
    \/ ~float_of(args.amount).ok
    \/ float_of(args.amount).ok /\ ~validate_amount(AmountNum(float_of(args.amount).val)).ok
    \/ ~validate_payment_mode(args.mode).ok

\* C16: a run with a command for which one of the date, platform or category,
\* amount or payment-mode validations fails ends with a non-zero exit status
\* and leaves the stored document as it was.
C16_InvalidCommandFails ==
    [][("command" \in DOMAIN report' /\ last'.op = "command"
           /\ SomeInvalid(report', load_data(data)))
         => (last'.result # "0" /\ data' = data)]_vars

\* C16 witness: with two entries stored, an expense command with a category
\* that does not exist has ended with status 1
C16_Witness ==
    /\ last.op = "command" /\ last.result = "1" /\ last.err = "InvalidCategory"
    /\ report.command = "expense"
    /\ TotalEntries(data) = 2

----------------------------------------------------------------------------
(* Classifying an uncategorized transaction by the number of a category,  *)
(* on the savings lists category management can leave.  Claim C21, under  *)
(* SpecClassify                                                            *)

\* Every list without repetition of at most n of the names
RECURSIVE ListsOfDistinct(_, _)
ListsOfDistinct(names, n) ==
    IF n = 0 THEN {<<>>}
    ELSE LET shorter == ListsOfDistinct(names, n - 1)
             longest == {q \in shorter : Len(q) = n - 1}
         IN  shorter \cup UNION {{Append(l, c) : c \in names \ {l[i] : i \in 1..Len(l)}} :
                                   l \in longest}

\* The savings lists option 6 can leave: add, rename and delete give any
\* list of distinct title-cased names
ManagedLists == ListsOfDistinct({S_EmergencySavings, S_Emergency, S_School}, MaxListed)

\* The channel identity is set, one M-Pesa income of 1000 is stored, and the
\* savings category list is one that category management can leave
InitClassify ==
    /\ data \in {[DefaultData EXCEPT
                    !["income"] = <<IncomeEntry(Today, "Offline", Float(1000), S_MPesa)>>,
                    !["savings_categories"] = l,
                    !["mpesa_details"] = [name |-> <<"J","o","e">>,
                                          phone |-> normalize_phone(T_0712)]] :
                 l \in ManagedLists}
    /\ contacts = <<>>
    /\ pc = "menu"
    /\ mem = NoFile
    /\ messages = <<>>
    /\ last = Last("start", "", "", NoTrans, NoEntry)
    /\ report = NoReport

\* The category answers of the operator: the numbers of the list
ClassifyAnswers == {<<"1">>, <<"2">>, <<"3">>}

NextClassify ==
    \/ StartBatch(<<M_Sent100>>)
    \/ \E choice \in {"1", "2", "3"}, c \in ClassifyAnswers : BatchStep(choice, c)

SpecClassify == InitClassify /\ [][NextClassify]_vars

\* The category with the number the answer c reads as, in the list of the
\* collection the answer choice stands for, as the loop displayed it
Picked(choice, c) ==
    mem[IF choice = "1" THEN "expense_categories" ELSE "savings_categories"][IntOf(c)]

\* The answer c is the number of a category of that list
PickedInRange(choice, c) ==
    /\ choice \in {"1", "2"}
    /\ 1 <= IntOf(c)
    /\ IntOf(c) <= Len(mem[IF choice = "1" THEN "expense_categories"
                           ELSE "savings_categories"])

\* C21: when the operator classifies an uncategorized transaction with the
\* number of category C of the displayed expense or savings list, the entry
\* the turn appends has the category C, whatever list category management has
\* left, lists where an earlier name begins with C's name included.
C21_PickedCategoryStored ==
    [][(NextUncategorized /\ last'.op = "message"
           /\ last'.result \in {"expense", "savings"}) =>
        \A choice \in {"1", "2"}, c \in ClassifyAnswers :
           (PickedInRange(choice, c) /\ BatchStep(choice, c))
              => last'.entry.category = Picked(choice, c)]_vars

====
